---- MODULE Spec2Model ----
(***************************************************************************)
(* Tun2ray (libcore): the TUN handler's UDP NAT table with its creation    *)
(* barrier (tun.go) and the per-UID traffic statistics (stats.go).         *)
(*                                                                         *)
(* Every goroutine is a process with a program counter.  One step of a     *)
(* process is one operation on shared memory: a sync.Map call, a           *)
(* sync/atomic call, a plain load or store of a shared field, a conn       *)
(* call, or a critical section of t.access that only touches t.appStats.   *)
(***************************************************************************)
EXTENDS Integers, Sequences, FiniteSets, TLC

(* ----------------------------- bounds ---------------------------------- *)
\* concurrent NewPacket calls of one source endpoint
NumPackets == 2
\* bytes of one datagram
PacketLen == 1
\* bytes the flows of one entry carry in each direction
MaxBytes == 2
\* bytes one stream Read or Write returns at most
MaxRead == 1
\* calls of ResetAppTraffics and of ReadAppTraffics
MaxResets == 1
MaxSnapshots == 2

Nil == 0

UdpProcs == 1..NumPackets

\* natKey := source.NetAddr(); lockKey := natKey + "-lock"
natKey == "src"
lockKey == "src-lock"

\* destination.Address.String(): t.router is the DNS sentinel
router == "router"
Destinations == {router, "remote"}

\* os.Getuid() of the process, and what DumpUid can answer
Getuid == 10077
RawUids == {0, 10042, Getuid}
\* the resolver's answers: an error (-1) or a uid
DumpUidResults == RawUids \cup {-1}

\* uid as clamped by the handlers: if uid < 10000 { uid = 1000 }
ClampUid(u) == IF u < 10000 THEN 1000 ELSE u

\* the keys t.appStats can get: clamped uids, and 0 (var uid uint16) after a
\* failed lookup
Uids == {ClampUid(u) : u \in RawUids} \cup {0}

\* time.Now().Unix() at the moment the last flow of an entry closes
UnixNow == 1

\* the one goroutine calling ResetAppTraffics, and those calling ReadAppTraffics
Readers == {1, 2}
\* NewConnection calls
TcpProcs == {1}

VARIABLES
    \* configuration flags of Tun2ray
    trafficStats, dumpUid,
    \* the run's traffic: the destinations the TUN delivers flows for, and
    \* the answers uidDumper.DumpUid gives (-1: an error)
    dests, answers,
    \* natTable.mapping: key -> 0, a conn (under natKey) or a cond (under lockKey)
    mapping,
    \* sync.Cond objects, named by the NewPacket call that created them:
    \* the holder of cond.L and the goroutines parked in Wait
    condL, notify,
    \* upstream conns, named by the NewPacket call that dialed them:
    \* closed, and the stats entry a statsPacketConn wrapper counts into
    connClosed, connStats,
    \* the TUN-side closer of each NewPacket call
    closerClosed,
    \* the upstream conn each call's datagram was written to (0: not written)
    forwarded,
    \* NewPacket locals
    upc, ucond, uconn, usend, udest, uuid, uself, uinboundUid, ustats, udec,
    \* the goroutine started by "go sendTo()"
    gpc, gsend,
    \* t.appStats (uid -> entry, 0 when absent), the appStats objects ever
    \* allocated, and t.access (read holders, write holder)
    appStats, heap, rlocks, wlock,
    \* NewConnection locals
    tpc, tdest, tuid, tself, tinboundUid, tstats, tn, terr, tdec,
    \* ResetAppTraffics locals
    rpc, rtodo, rcur, rsum, toDel,
    \* ReadAppTraffics locals
    spc, stodo, scur, export, swapped, stats,
    \* the listener: every record passed to UpdateStats, in order
    delivered,
    \* history: calls started, and per entry the bytes its flows have counted
    \* (stream Reads, packet writes, and down), the number of ReadAppTraffics passes begun on it since
    \* a flow or Reset last wrote its byte counters, and whether a flow has
    \* counted bytes into it since the last ResetAppTraffics call began
    resets, snapshots, acct

natVars == <<mapping, condL, notify, connClosed, connStats, closerClosed, forwarded>>
udpVars == <<upc, ucond, uconn, usend, udest, uuid, uself, uinboundUid, ustats, udec, gpc, gsend>>
cfgVars == <<trafficStats, dumpUid, dests, answers>>
mapVars == <<appStats, rlocks, wlock>>
tcpVars == <<tpc, tdest, tuid, tself, tinboundUid, tstats, tn, terr, tdec>>
resetVars == <<rpc, rtodo, rcur, rsum, toDel, resets>>
readVars == <<spc, stodo, scur, export, swapped, stats, delivered, snapshots>>

vars == <<cfgVars, natVars, udpVars, mapVars, heap, acct, tcpVars, resetVars, readVars>>

(* --------------------------- shared helpers ---------------------------- *)
\* &appStats{}: every field zero
ZeroStats ==
    [tcpConn |-> 0, udpConn |-> 0, tcpConnTotal |-> 0, udpConnTotal |-> 0,
     uplink |-> 0, downlink |-> 0, uplinkTotal |-> 0, downlinkTotal |-> 0,
     deactivateAt |-> 0]

ZeroAcct == [read |-> 0, sent |-> 0, down |-> 0, quiet |-> 0, late |-> FALSE]

\* atomic.AddXxx(&heap[e].f, d): the heap after the add
AtomicAdd(e, f, d) == [heap EXCEPT ![e][f] = @ + d]

\* atomic.StoreXxx(&heap[e].f, v)
AtomicStore(e, f, v) == [heap EXCEPT ![e][f] = v]

\* bytes the flows may still count into entry e: up by stream Reads ("read")
\* and packet writes ("sent"), or down ("down")
Room(e, d) ==
    IF d = "down" THEN MaxBytes - acct[e].down ELSE MaxBytes - acct[e].read - acct[e].sent

\* the history of entry e after a flow counted n bytes as d
Counted(e, d, n) == [acct EXCEPT ![e][d] = @ + n, ![e].quiet = 0, ![e].late = resets > 0]

\* the handlers' condition for attributing a flow:
\* t.trafficStats && !self && !isDns
Attributed(self, dest) == trafficStats /\ ~self /\ dest # router

\* what the handlers derive from DumpUid's answer u (-1: an error):
\* the uid, self, and inbound.Uid (0: left unset)
ResolvedUid(u) == IF u = -1 THEN 0 ELSE ClampUid(u)
ResolvedSelf(u) == u > 0 /\ u = Getuid
ResolvedInbound(u) == IF u = -1 THEN 0 ELSE ClampUid(u)

(* ------------------------------- Init ---------------------------------- *)
InitState ==
    /\ mapping = [k \in {natKey, lockKey} |-> Nil]
    /\ condL = [c \in UdpProcs |-> Nil]
    /\ notify = [c \in UdpProcs |-> {}]
    /\ connClosed = [c \in UdpProcs |-> FALSE]
    /\ connStats = [c \in UdpProcs |-> Nil]
    /\ closerClosed = [p \in UdpProcs |-> FALSE]
    /\ forwarded = [p \in UdpProcs |-> Nil]
    /\ upc = [p \in UdpProcs |-> "idle"]
    /\ ucond = [p \in UdpProcs |-> Nil]
    /\ uconn = [p \in UdpProcs |-> Nil]
    /\ usend = [p \in UdpProcs |-> Nil]
    /\ udest = [p \in UdpProcs |-> router]
    /\ uuid = [p \in UdpProcs |-> 0]
    /\ uself = [p \in UdpProcs |-> FALSE]
    /\ uinboundUid = [p \in UdpProcs |-> 0]
    /\ ustats = [p \in UdpProcs |-> Nil]
    /\ udec = [p \in UdpProcs |-> 0]
    /\ gpc = [p \in UdpProcs |-> "none"]
    /\ gsend = [p \in UdpProcs |-> Nil]
    /\ appStats = [u \in Uids |-> Nil]
    /\ heap = <<>>
    /\ acct = <<>>
    /\ rlocks = 0
    /\ wlock = FALSE
    /\ tpc = [p \in TcpProcs |-> "idle"]
    /\ tdest = [p \in TcpProcs |-> router]
    /\ tuid = [p \in TcpProcs |-> 0]
    /\ tself = [p \in TcpProcs |-> FALSE]
    /\ tinboundUid = [p \in TcpProcs |-> 0]
    /\ tstats = [p \in TcpProcs |-> Nil]
    /\ tn = [p \in TcpProcs |-> 0]
    /\ terr = [p \in TcpProcs |-> FALSE]
    /\ tdec = [p \in TcpProcs |-> 0]
    /\ rpc = "idle"
    /\ rtodo = {}
    /\ rcur = Nil
    /\ rsum = 0
    /\ toDel = {}
    /\ resets = 0
    /\ spc = [r \in Readers |-> "idle"]
    /\ stodo = [r \in Readers |-> {}]
    /\ scur = [r \in Readers |-> Nil]
    /\ export = [r \in Readers |-> <<>>]
    /\ swapped = [r \in Readers |-> 0]
    /\ stats = [r \in Readers |-> <<>>]
    /\ delivered = <<>>
    /\ snapshots = 0

(* ------------------------ natTable (tun.go) ---------------------------- *)
\* natTable.Get(key)
Get(key) == mapping[key]

\* natTable.Set(key, pc)
Set(key, pc) == [mapping EXCEPT ![key] = pc]

\* natTable.Delete(key)
Delete(key) == [mapping EXCEPT ![key] = Nil]

\* natTable.GetOrCreateLock(key) by call p: <<cond, loaded>>
GetOrCreateLock(key, p) ==
    IF mapping[key] = Nil THEN <<p, FALSE>> ELSE <<mapping[key], TRUE>>

\* WriteTo with the add made whether or not the write succeeded
WriteTo_CountsAlways(p, c, ok) ==
    LET success == ok /\ ~connClosed[c]
        e == connStats[c]
    IN  /\ forwarded' = IF success THEN [forwarded EXCEPT ![p] = c] ELSE forwarded
        /\ connClosed' = IF success THEN connClosed ELSE [connClosed EXCEPT ![c] = TRUE]
        /\ heap' = IF e # Nil THEN AtomicAdd(e, "uplink", PacketLen) ELSE heap
        /\ acct' = IF success /\ e # Nil THEN Counted(e, "sent", PacketLen) ELSE acct

\* conn.WriteTo(data, addr) inside sendTo, for the datagram of call p on conn c;
\* ok: the transport accepts the datagram.  A statsPacketConn counts a
\* successful write into uplink; sendTo closes the conn after a failed one.
WriteTo(p, c, ok) ==
    LET success == ok /\ ~connClosed[c]
        e == connStats[c]
    IN  /\ forwarded' = IF success THEN [forwarded EXCEPT ![p] = c] ELSE forwarded
        /\ connClosed' = IF success THEN connClosed ELSE [connClosed EXCEPT ![c] = TRUE]
        /\ heap' = IF success /\ e # Nil THEN AtomicAdd(e, "uplink", PacketLen) ELSE heap
        /\ acct' = IF success /\ e # Nil THEN Counted(e, "sent", PacketLen) ELSE acct

(* --------------------- Tun2ray.NewPacket (tun.go) ---------------------- *)
otherVars == <<cfgVars, tcpVars, resetVars, readVars>>

\* the transport outcomes a write of call p's datagram to conn c can have
WriteOutcomes(c) ==
    {ok \in BOOLEAN : ok /\ connStats[c] # Nil => Room(connStats[c], "sent") >= PacketLen}

\* lines 247-267: the call, and sendTo's Get on the fast path
UdpCall(p) ==
    /\ upc[p] = "idle"
    /\ \E d \in dests : udest' = [udest EXCEPT ![p] = d]
    /\ usend' = [usend EXCEPT ![p] = Get(natKey)]
    /\ upc' = [upc EXCEPT ![p] = IF Get(natKey) = Nil THEN "lock" ELSE "write"]
    /\ UNCHANGED <<natVars, ucond, uconn, uuid, uself, uinboundUid, ustats, udec, gpc, gsend,
                   mapVars, heap, acct, otherVars>>

\* lines 255-266: sendTo's WriteTo on the fast path, then return
UdpWrite(p) ==
    /\ upc[p] = "write"
    /\ \E ok \in WriteOutcomes(usend[p]) : WriteTo(p, usend[p], ok)
    /\ upc' = [upc EXCEPT ![p] = "done"]
    /\ UNCHANGED <<mapping, condL, notify, connStats, closerClosed,
                   ucond, uconn, usend, udest, uuid, uself, uinboundUid, ustats, udec, gpc, gsend,
                   mapVars, otherVars>>

\* lines 269-271: GetOrCreateLock(lockKey)
UdpGetOrCreateLock(p) ==
    /\ upc[p] = "lock"
    /\ LET r == GetOrCreateLock(lockKey, p) IN
        /\ ucond' = [ucond EXCEPT ![p] = r[1]]
        /\ mapping' = IF r[2] THEN mapping ELSE Set(lockKey, p)
        /\ upc' = [upc EXCEPT ![p] = IF r[2] THEN "condlock" ELSE "dellock"]
    /\ UNCHANGED <<condL, notify, connClosed, connStats, closerClosed, forwarded,
                   uconn, usend, udest, uuid, uself, uinboundUid, ustats, udec, gpc, gsend,
                   mapVars, heap, acct, otherVars>>

\* line 272: cond.L.Lock()
UdpCondLock(p) ==
    /\ upc[p] = "condlock"
    /\ condL[ucond[p]] = Nil
    /\ condL' = [condL EXCEPT ![ucond[p]] = p]
    /\ upc' = [upc EXCEPT ![p] = "wait"]
    /\ UNCHANGED <<mapping, notify, connClosed, connStats, closerClosed, forwarded,
                   ucond, uconn, usend, udest, uuid, uself, uinboundUid, ustats, udec, gpc, gsend,
                   mapVars, heap, acct, otherVars>>

\* line 273: cond.Wait() enters the notify list, unlocks cond.L and parks
UdpCondWait(p) ==
    /\ upc[p] = "wait"
    /\ notify' = [notify EXCEPT ![ucond[p]] = @ \cup {p}]
    /\ condL' = [condL EXCEPT ![ucond[p]] = Nil]
    /\ upc' = [upc EXCEPT ![p] = "parked"]
    /\ UNCHANGED <<mapping, connClosed, connStats, closerClosed, forwarded,
                   ucond, uconn, usend, udest, uuid, uself, uinboundUid, ustats, udec, gpc, gsend,
                   mapVars, heap, acct, otherVars>>

\* line 273: a Broadcast took the waiter off the list; Wait relocks cond.L
UdpWake(p) ==
    /\ upc[p] = "parked"
    /\ p \notin notify[ucond[p]]
    /\ condL[ucond[p]] = Nil
    /\ condL' = [condL EXCEPT ![ucond[p]] = p]
    /\ upc' = [upc EXCEPT ![p] = "retry"]
    /\ UNCHANGED <<mapping, notify, connClosed, connStats, closerClosed, forwarded,
                   ucond, uconn, usend, udest, uuid, uself, uinboundUid, ustats, udec, gpc, gsend,
                   mapVars, heap, acct, otherVars>>

\* line 274: the waiter's sendTo: Get
UdpRetry(p) ==
    /\ upc[p] = "retry"
    /\ usend' = [usend EXCEPT ![p] = Get(natKey)]
    /\ upc' = [upc EXCEPT ![p] = IF Get(natKey) = Nil THEN "condunlock" ELSE "retrywrite"]
    /\ UNCHANGED <<natVars, ucond, uconn, udest, uuid, uself, uinboundUid, ustats, udec, gpc, gsend,
                   mapVars, heap, acct, otherVars>>

\* line 274: the waiter's sendTo: WriteTo
UdpRetryWrite(p) ==
    /\ upc[p] = "retrywrite"
    /\ \E ok \in WriteOutcomes(usend[p]) : WriteTo(p, usend[p], ok)
    /\ upc' = [upc EXCEPT ![p] = "condunlock"]
    /\ UNCHANGED <<mapping, condL, notify, connStats, closerClosed,
                   ucond, uconn, usend, udest, uuid, uself, uinboundUid, ustats, udec, gpc, gsend,
                   mapVars, otherVars>>

\* lines 275-276: cond.L.Unlock(); return
UdpCondUnlock(p) ==
    /\ upc[p] = "condunlock"
    /\ condL' = [condL EXCEPT ![ucond[p]] = Nil]
    /\ upc' = [upc EXCEPT ![p] = "done"]
    /\ UNCHANGED <<mapping, notify, connClosed, connStats, closerClosed, forwarded,
                   ucond, uconn, usend, udest, uuid, uself, uinboundUid, ustats, udec, gpc, gsend,
                   mapVars, heap, acct, otherVars>>

\* UdpDeleteLock with the barrier left in the table
UdpDeleteLock_Keep(p) ==
    /\ upc[p] = "dellock"
    /\ upc' = [upc EXCEPT ![p] = "broadcast"]
    /\ UNCHANGED <<natVars, ucond, uconn, usend, udest, uuid, uself, uinboundUid, ustats, udec, gpc, gsend,
                   mapVars, heap, acct, otherVars>>

\* line 279: t.udpTable.Delete(lockKey)
UdpDeleteLock(p) ==
    /\ upc[p] = "dellock"
    /\ mapping' = Delete(lockKey)
    /\ upc' = [upc EXCEPT ![p] = "broadcast"]
    /\ UNCHANGED <<condL, notify, connClosed, connStats, closerClosed, forwarded,
                   ucond, uconn, usend, udest, uuid, uself, uinboundUid, ustats, udec, gpc, gsend,
                   mapVars, heap, acct, otherVars>>

\* line 280: cond.Broadcast() wakes the goroutines parked at this moment
UdpBroadcast(p) ==
    /\ upc[p] = "broadcast"
    /\ notify' = [notify EXCEPT ![ucond[p]] = {}]
    /\ upc' = [upc EXCEPT ![p] = "resolve"]
    /\ UNCHANGED <<mapping, condL, connClosed, connStats, closerClosed, forwarded,
                   ucond, uconn, usend, udest, uuid, uself, uinboundUid, ustats, udec, gpc, gsend,
                   mapVars, heap, acct, otherVars>>

\* lines 282-353: the inbound descriptor and the UID lookup
UdpResolve(p) ==
    /\ upc[p] = "resolve"
    /\ \E u \in (IF dumpUid \/ trafficStats THEN answers ELSE {-1}) :
        /\ uuid' = [uuid EXCEPT ![p] = ResolvedUid(u)]
        /\ uself' = [uself EXCEPT ![p] = ResolvedSelf(u)]
        /\ uinboundUid' = [uinboundUid EXCEPT ![p] = ResolvedInbound(u)]
    /\ upc' = [upc EXCEPT ![p] = "dial"]
    /\ UNCHANGED <<natVars, ucond, uconn, usend, udest, ustats, udec, gpc, gsend,
                   mapVars, heap, acct, otherVars>>

\* lines 355-361: dialUDP; a failed dial returns at once
UdpDial(p) ==
    /\ upc[p] = "dial"
    /\ \E ok \in BOOLEAN :
        /\ uconn' = [uconn EXCEPT ![p] = IF ok THEN p ELSE Nil]
        /\ upc' = [upc EXCEPT ![p] =
                     IF ~ok THEN "done"
                     ELSE IF Attributed(uself[p], udest[p]) THEN "attach" ELSE "set"]
    /\ UNCHANGED <<natVars, ucond, usend, udest, uuid, uself, uinboundUid, ustats, udec, gpc, gsend,
                   mapVars, heap, acct, otherVars>>

\* lines 362-364: stats := t.appStats[uid] under the read lock
UdpAttach(p) ==
    /\ upc[p] = "attach"
    /\ ~wlock
    /\ ustats' = [ustats EXCEPT ![p] = appStats[uuid[p]]]
    /\ upc' = [upc EXCEPT ![p] = IF appStats[uuid[p]] = Nil THEN "create" ELSE "inc"]
    /\ UNCHANGED <<natVars, ucond, uconn, usend, udest, uuid, uself, uinboundUid, udec, gpc, gsend,
                   mapVars, heap, acct, otherVars>>

\* UdpCreate without the second look under the write lock
UdpCreate_NoRecheck(p) ==
    /\ upc[p] = "create"
    /\ ~wlock /\ rlocks = 0
    /\ heap' = Append(heap, ZeroStats)
    /\ acct' = Append(acct, ZeroAcct)
    /\ appStats' = [appStats EXCEPT ![uuid[p]] = Len(heap) + 1]
    /\ ustats' = [ustats EXCEPT ![p] = Len(heap) + 1]
    /\ upc' = [upc EXCEPT ![p] = "inc"]
    /\ UNCHANGED <<natVars, ucond, uconn, usend, udest, uuid, uself, uinboundUid, udec, gpc, gsend,
                   rlocks, wlock, otherVars>>

\* lines 365-373: the double-checked creation under the write lock
UdpCreate(p) ==
    /\ upc[p] = "create"
    /\ ~wlock /\ rlocks = 0
    /\ IF appStats[uuid[p]] = Nil
       THEN /\ heap' = Append(heap, ZeroStats)
            /\ acct' = Append(acct, ZeroAcct)
            /\ appStats' = [appStats EXCEPT ![uuid[p]] = Len(heap) + 1]
            /\ ustats' = [ustats EXCEPT ![p] = Len(heap) + 1]
       ELSE /\ ustats' = [ustats EXCEPT ![p] = appStats[uuid[p]]]
            /\ UNCHANGED <<heap, acct, appStats>>
    /\ upc' = [upc EXCEPT ![p] = "inc"]
    /\ UNCHANGED <<natVars, ucond, uconn, usend, udest, uuid, uself, uinboundUid, udec, gpc, gsend,
                   rlocks, wlock, otherVars>>

\* line 374: atomic.AddInt32(&stats.udpConn, 1)
UdpInc(p) ==
    /\ upc[p] = "inc"
    /\ heap' = AtomicAdd(ustats[p], "udpConn", 1)
    /\ upc' = [upc EXCEPT ![p] = "inctotal"]
    /\ UNCHANGED <<natVars, ucond, uconn, usend, udest, uuid, uself, uinboundUid, ustats, udec, gpc, gsend,
                   mapVars, acct, otherVars>>

\* line 375: atomic.AddUint32(&stats.udpConnTotal, 1)
UdpIncTotal(p) ==
    /\ upc[p] = "inctotal"
    /\ heap' = AtomicAdd(ustats[p], "udpConnTotal", 1)
    /\ upc' = [upc EXCEPT ![p] = "activate"]
    /\ UNCHANGED <<natVars, ucond, uconn, usend, udest, uuid, uself, uinboundUid, ustats, udec, gpc, gsend,
                   mapVars, acct, otherVars>>

\* line 376: atomic.StoreInt64(&stats.deactivateAt, 0)
UdpActivate(p) ==
    /\ upc[p] = "activate"
    /\ heap' = AtomicStore(ustats[p], "deactivateAt", 0)
    /\ upc' = [upc EXCEPT ![p] = "set"]
    /\ UNCHANGED <<natVars, ucond, uconn, usend, udest, uuid, uself, uinboundUid, ustats, udec, gpc, gsend,
                   mapVars, acct, otherVars>>

\* lines 382-387: wrap the conn when attributed, Set(natKey, conn), go sendTo()
UdpSet(p) ==
    /\ upc[p] = "set"
    /\ connStats' = [connStats EXCEPT ![uconn[p]] = ustats[p]]
    /\ mapping' = Set(natKey, uconn[p])
    /\ gpc' = [gpc EXCEPT ![p] = "get"]
    /\ upc' = [upc EXCEPT ![p] = "recv"]
    /\ UNCHANGED <<condL, notify, connClosed, closerClosed, forwarded,
                   ucond, uconn, usend, udest, uuid, uself, uinboundUid, ustats, udec, gsend,
                   mapVars, heap, acct, otherVars>>

\* lines 389-405: one turn of the read loop: conn.readFrom(), then writeBack.
\* A statsPacketConn counts a successful read into downlink.
UdpRecv(p) ==
    /\ upc[p] = "recv"
    /\ LET e == connStats[uconn[p]] IN
       \E readOk \in BOOLEAN, writeBackOk \in BOOLEAN :
        /\ readOk => ~connClosed[uconn[p]]
        /\ readOk /\ e # Nil => Room(e, "down") >= PacketLen
        /\ heap' = IF readOk /\ e # Nil THEN AtomicAdd(e, "downlink", PacketLen) ELSE heap
        /\ acct' = IF readOk /\ e # Nil THEN Counted(e, "down", PacketLen) ELSE acct
        /\ upc' = [upc EXCEPT ![p] = IF readOk /\ writeBackOk THEN "recv" ELSE "close"]
    /\ UNCHANGED <<natVars, ucond, uconn, usend, udest, uuid, uself, uinboundUid, ustats, udec, gpc, gsend,
                   mapVars, otherVars>>

\* line 407: closeIgnore(conn, closer)
UdpClose(p) ==
    /\ upc[p] = "close"
    /\ connClosed' = [connClosed EXCEPT ![uconn[p]] = TRUE]
    /\ closerClosed' = [closerClosed EXCEPT ![p] = TRUE]
    /\ upc' = [upc EXCEPT ![p] = "delete"]
    /\ UNCHANGED <<mapping, condL, notify, connStats, forwarded,
                   ucond, uconn, usend, udest, uuid, uself, uinboundUid, ustats, udec, gpc, gsend,
                   mapVars, heap, acct, otherVars>>

\* UdpDelete with the conn left under the NAT key
UdpDelete_Keep(p) ==
    /\ upc[p] = "delete"
    /\ upc' = [upc EXCEPT ![p] = IF ustats[p] # Nil THEN "dec" ELSE "done"]
    /\ UNCHANGED <<natVars, ucond, uconn, usend, udest, uuid, uself, uinboundUid, ustats, udec, gpc, gsend,
                   mapVars, heap, acct, otherVars>>

\* line 408: t.udpTable.Delete(natKey); the deferred DecLive follows if any
UdpDelete(p) ==
    /\ upc[p] = "delete"
    /\ mapping' = Delete(natKey)
    /\ upc' = [upc EXCEPT ![p] = IF ustats[p] # Nil THEN "dec" ELSE "done"]
    /\ UNCHANGED <<condL, notify, connClosed, connStats, closerClosed, forwarded,
                   ucond, uconn, usend, udest, uuid, uself, uinboundUid, ustats, udec, gpc, gsend,
                   mapVars, heap, acct, otherVars>>

\* line 378: atomic.AddInt32(&stats.udpConn, -1), the left operand
UdpDec(p) ==
    /\ upc[p] = "dec"
    /\ heap' = AtomicAdd(ustats[p], "udpConn", -1)
    /\ udec' = [udec EXCEPT ![p] = heap[ustats[p]].udpConn - 1]
    /\ upc' = [upc EXCEPT ![p] = "decload"]
    /\ UNCHANGED <<natVars, ucond, uconn, usend, udest, uuid, uself, uinboundUid, ustats, gpc, gsend,
                   mapVars, acct, otherVars>>

\* line 378: + atomic.LoadInt32(&stats.tcpConn) == 0
UdpDecLoad(p) ==
    /\ upc[p] = "decload"
    /\ upc' = [upc EXCEPT ![p] =
                 IF udec[p] + heap[ustats[p]].tcpConn = 0 THEN "deactivate" ELSE "done"]
    /\ UNCHANGED <<natVars, ucond, uconn, usend, udest, uuid, uself, uinboundUid, ustats, udec, gpc, gsend,
                   mapVars, heap, acct, otherVars>>

\* line 379: atomic.StoreInt64(&stats.deactivateAt, time.Now().Unix())
UdpDeactivate(p) ==
    /\ upc[p] = "deactivate"
    /\ heap' = AtomicStore(ustats[p], "deactivateAt", UnixNow)
    /\ upc' = [upc EXCEPT ![p] = "done"]
    /\ UNCHANGED <<natVars, ucond, uconn, usend, udest, uuid, uself, uinboundUid, ustats, udec, gpc, gsend,
                   mapVars, acct, otherVars>>

\* line 387: the goroutine's sendTo: Get
GoGet(p) ==
    /\ gpc[p] = "get"
    /\ gsend' = [gsend EXCEPT ![p] = Get(natKey)]
    /\ gpc' = [gpc EXCEPT ![p] = IF Get(natKey) = Nil THEN "done" ELSE "write"]
    /\ UNCHANGED <<natVars, upc, ucond, uconn, usend, udest, uuid, uself, uinboundUid, ustats, udec,
                   mapVars, heap, acct, otherVars>>

\* line 387: the goroutine's sendTo: WriteTo
GoWrite(p) ==
    /\ gpc[p] = "write"
    /\ \E ok \in WriteOutcomes(gsend[p]) : WriteTo(p, gsend[p], ok)
    /\ gpc' = [gpc EXCEPT ![p] = "done"]
    /\ UNCHANGED <<mapping, condL, notify, connStats, closerClosed,
                   upc, ucond, uconn, usend, udest, uuid, uself, uinboundUid, ustats, udec, gsend,
                   mapVars, otherVars>>

\* the steps of NewPacket that every call can take
NewPacket(p) ==
    \/ UdpCall(p) \/ UdpWrite(p) \/ UdpGetOrCreateLock(p)
    \/ UdpCondLock(p) \/ UdpCondWait(p) \/ UdpWake(p)
    \/ UdpRetry(p) \/ UdpRetryWrite(p) \/ UdpCondUnlock(p)
    \/ UdpDeleteLock(p) \/ UdpBroadcast(p) \/ UdpResolve(p) \/ UdpDial(p)
    \/ UdpSet(p) \/ UdpRecv(p) \/ UdpClose(p) \/ UdpDelete(p)
    \/ GoGet(p) \/ GoWrite(p)

\* the steps of NewPacket under t.trafficStats
NewPacketStats(p) ==
    \/ UdpAttach(p) \/ UdpCreate(p) \/ UdpInc(p) \/ UdpIncTotal(p) \/ UdpActivate(p)
    \/ UdpDec(p) \/ UdpDecLoad(p) \/ UdpDeactivate(p)

(* ---------------- the NAT table alone: statistics off ------------------ *)
InitNat ==
    /\ InitState
    /\ trafficStats = FALSE
    /\ dumpUid = FALSE
    /\ dests = Destinations
    /\ answers = DumpUidResults

NextNat == \E p \in UdpProcs : NewPacket(p)

SpecNat == InitNat /\ [][NextNat]_vars

\* goroutine scheduling is fair, and every upstream read ends (the conn's
\* idle timeout): each call and each spawned sendTo keeps taking steps
SpecNatFair == SpecNat /\ \A p \in UdpProcs : WF_vars(NewPacket(p))

(* ----------------------- claims on the NAT table ----------------------- *)
\* calls that took the creation path and whose dialUDP returned a conn
Dialed == {p \in UdpProcs : uconn[p] # Nil}

\* calls that have executed their final Delete(natKey), line 408
DeletedEntry == {p \in UdpProcs : uconn[p] # Nil /\ upc[p] \in {"dec", "decload", "deactivate", "done"}}

\* calls for which GetOrCreateLock returned loaded = true
Waiters == {p \in UdpProcs : ucond[p] # Nil /\ ucond[p] # p}

\* C1: concurrent NewPacket calls of one source endpoint dial exactly once
\* until the NAT entry is deleted: as long as no call has deleted the entry,
\* at most one call has obtained a conn from dialUDP.
C1_SingleFlight == DeletedEntry = {} => Cardinality(Dialed) <= 1

\* C2: of two concurrent calls with no NAT entry beforehand both datagrams
\* are forwarded: a call that waited on the barrier and has returned has
\* handed its datagram to an upstream conn.
C2_BothForwarded ==
    \A p \in Waiters : upc[p] = "done" => forwarded[p] # Nil \/ usend[p] # Nil

\* C3: every call that found the barrier (loaded = true) is eventually
\* signaled and returns.
C3_WaiterReturns ==
    \A p \in UdpProcs : (upc[p] = "condlock") ~> (upc[p] = "done")

(* ------------------- Tun2ray.NewConnection (tun.go) -------------------- *)
tcpOther == <<cfgVars, natVars, udpVars, resetVars, readVars>>

\* lines 141-206: the call, the inbound descriptor and the UID lookup
TcpCall(p) ==
    /\ tpc[p] = "idle"
    /\ \E d \in dests, u \in (IF dumpUid \/ trafficStats THEN answers ELSE {-1}) :
        /\ tdest' = [tdest EXCEPT ![p] = d]
        /\ tuid' = [tuid EXCEPT ![p] = ResolvedUid(u)]
        /\ tself' = [tself EXCEPT ![p] = ResolvedSelf(u)]
        /\ tinboundUid' = [tinboundUid EXCEPT ![p] = ResolvedInbound(u)]
        /\ tpc' = [tpc EXCEPT ![p] =
                     IF Attributed(ResolvedSelf(u), d) THEN "attach" ELSE "dispatch"]
    /\ UNCHANGED <<tstats, tn, terr, tdec, mapVars, heap, acct, tcpOther>>

\* lines 207-209: stats := t.appStats[uid] under the read lock
TcpAttach(p) ==
    /\ tpc[p] = "attach"
    /\ ~wlock
    /\ tstats' = [tstats EXCEPT ![p] = appStats[tuid[p]]]
    /\ tpc' = [tpc EXCEPT ![p] = IF appStats[tuid[p]] = Nil THEN "create" ELSE "inc"]
    /\ UNCHANGED <<tdest, tuid, tself, tinboundUid, tn, terr, tdec, mapVars, heap, acct, tcpOther>>

\* lines 210-218: the double-checked creation under the write lock
TcpCreate(p) ==
    /\ tpc[p] = "create"
    /\ ~wlock /\ rlocks = 0
    /\ IF appStats[tuid[p]] = Nil
       THEN /\ heap' = Append(heap, ZeroStats)
            /\ acct' = Append(acct, ZeroAcct)
            /\ appStats' = [appStats EXCEPT ![tuid[p]] = Len(heap) + 1]
            /\ tstats' = [tstats EXCEPT ![p] = Len(heap) + 1]
       ELSE /\ tstats' = [tstats EXCEPT ![p] = appStats[tuid[p]]]
            /\ UNCHANGED <<heap, acct, appStats>>
    /\ tpc' = [tpc EXCEPT ![p] = "inc"]
    /\ UNCHANGED <<tdest, tuid, tself, tinboundUid, tn, terr, tdec, rlocks, wlock, tcpOther>>

\* line 219: atomic.AddInt32(&stats.tcpConn, 1)
TcpInc(p) ==
    /\ tpc[p] = "inc"
    /\ heap' = AtomicAdd(tstats[p], "tcpConn", 1)
    /\ tpc' = [tpc EXCEPT ![p] = "inctotal"]
    /\ UNCHANGED <<tdest, tuid, tself, tinboundUid, tstats, tn, terr, tdec, mapVars, acct, tcpOther>>

\* line 220: atomic.AddUint32(&stats.tcpConnTotal, 1)
TcpIncTotal(p) ==
    /\ tpc[p] = "inctotal"
    /\ heap' = AtomicAdd(tstats[p], "tcpConnTotal", 1)
    /\ tpc' = [tpc EXCEPT ![p] = "activate"]
    /\ UNCHANGED <<tdest, tuid, tself, tinboundUid, tstats, tn, terr, tdec, mapVars, acct, tcpOther>>

\* line 221: atomic.StoreInt64(&stats.deactivateAt, 0); line 227 wraps the conn
TcpActivate(p) ==
    /\ tpc[p] = "activate"
    /\ heap' = AtomicStore(tstats[p], "deactivateAt", 0)
    /\ tpc' = [tpc EXCEPT ![p] = "dispatch"]
    /\ UNCHANGED <<tdest, tuid, tself, tinboundUid, tstats, tn, terr, tdec, mapVars, acct, tcpOther>>

\* TcpDispatch with a failed DispatchLink returning at once, past the
\* deferred DecLive
TcpDispatch_FailReturns(p) ==
    /\ tpc[p] = "dispatch"
    /\ \E ok \in BOOLEAN : tpc' = [tpc EXCEPT ![p] = IF ok THEN "copy" ELSE "done"]
    /\ UNCHANGED <<tdest, tuid, tself, tinboundUid, tstats, tn, terr, tdec, mapVars, heap, acct, tcpOther>>

\* lines 230-235: DispatchLink; a failure skips the copy
TcpDispatch(p) ==
    /\ tpc[p] = "dispatch"
    /\ \E ok \in BOOLEAN : tpc' = [tpc EXCEPT ![p] = IF ok THEN "copy" ELSE "close"]
    /\ UNCHANGED <<tdest, tuid, tself, tinboundUid, tstats, tn, terr, tdec, mapVars, heap, acct, tcpOther>>

\* line 236 and statsConn.Read line 117: buf.Copy reads the inbound conn;
\* the inner Read returns n bytes, with or without an error
TcpRead(p) ==
    /\ tpc[p] = "copy"
    /\ \E n \in 0..MaxRead, err \in BOOLEAN :
        /\ ~err => n > 0
        /\ tstats[p] # Nil => n <= Room(tstats[p], "read")
        /\ tn' = [tn EXCEPT ![p] = n]
        /\ terr' = [terr EXCEPT ![p] = err]
        /\ tpc' = [tpc EXCEPT ![p] =
                     IF tstats[p] # Nil THEN "readadd" ELSE IF err THEN "close" ELSE "copy"]
    /\ UNCHANGED <<tdest, tuid, tself, tinboundUid, tstats, tdec, mapVars, heap, acct, tcpOther>>

\* TcpReadAdd with the add skipped when the inner Read returned an error
TcpReadAdd_OnSuccessOnly(p) ==
    /\ tpc[p] = "readadd"
    /\ heap' = IF terr[p] THEN heap ELSE AtomicAdd(tstats[p], "uplink", tn[p])
    /\ acct' = Counted(tstats[p], "read", tn[p])
    /\ tn' = [tn EXCEPT ![p] = 0]
    /\ terr' = [terr EXCEPT ![p] = FALSE]
    /\ tpc' = [tpc EXCEPT ![p] = IF terr[p] THEN "close" ELSE "copy"]
    /\ UNCHANGED <<tdest, tuid, tself, tinboundUid, tstats, tdec, mapVars, tcpOther>>

\* statsConn.Read lines 118-119: the deferred atomic.AddUint64(c.uplink, n),
\* then Read returns (n, err) to buf.Copy, which stops at an error
TcpReadAdd(p) ==
    /\ tpc[p] = "readadd"
    /\ heap' = AtomicAdd(tstats[p], "uplink", tn[p])
    /\ acct' = Counted(tstats[p], "read", tn[p])
    /\ tn' = [tn EXCEPT ![p] = 0]
    /\ terr' = [terr EXCEPT ![p] = FALSE]
    /\ tpc' = [tpc EXCEPT ![p] = IF terr[p] THEN "close" ELSE "copy"]
    /\ UNCHANGED <<tdest, tuid, tself, tinboundUid, tstats, tdec, mapVars, tcpOther>>

\* statsConn.Write lines 122-126: the dispatcher writes the response into
\* link.Writer (line 231) while the link is up; n bytes are counted
TcpWrite(p) ==
    /\ tpc[p] \in {"copy", "readadd"}
    /\ tstats[p] # Nil
    /\ \E n \in 1..MaxRead :
        /\ n <= Room(tstats[p], "down")
        /\ heap' = AtomicAdd(tstats[p], "downlink", n)
        /\ acct' = Counted(tstats[p], "down", n)
    /\ UNCHANGED <<tcpVars, mapVars, tcpOther>>

\* line 239: closeIgnore(conn, link.Reader, link.Writer); the deferred
\* DecLive follows if the flow was attributed
TcpClose(p) ==
    /\ tpc[p] = "close"
    /\ tpc' = [tpc EXCEPT ![p] = IF tstats[p] # Nil THEN "dec" ELSE "done"]
    /\ UNCHANGED <<tdest, tuid, tself, tinboundUid, tstats, tn, terr, tdec, mapVars, heap, acct, tcpOther>>

\* line 223: atomic.AddInt32(&stats.tcpConn, -1), the left operand
TcpDec(p) ==
    /\ tpc[p] = "dec"
    /\ heap' = AtomicAdd(tstats[p], "tcpConn", -1)
    /\ tdec' = [tdec EXCEPT ![p] = heap[tstats[p]].tcpConn - 1]
    /\ tpc' = [tpc EXCEPT ![p] = "decload"]
    /\ UNCHANGED <<tdest, tuid, tself, tinboundUid, tstats, tn, terr, mapVars, acct, tcpOther>>

\* line 223: + atomic.LoadInt32(&stats.udpConn) == 0
TcpDecLoad(p) ==
    /\ tpc[p] = "decload"
    /\ tpc' = [tpc EXCEPT ![p] =
                 IF tdec[p] + heap[tstats[p]].udpConn = 0 THEN "deactivate" ELSE "done"]
    /\ UNCHANGED <<tdest, tuid, tself, tinboundUid, tstats, tn, terr, tdec, mapVars, heap, acct, tcpOther>>

\* line 224: atomic.StoreInt64(&stats.deactivateAt, time.Now().Unix())
TcpDeactivate(p) ==
    /\ tpc[p] = "deactivate"
    /\ heap' = AtomicStore(tstats[p], "deactivateAt", UnixNow)
    /\ tpc' = [tpc EXCEPT ![p] = "done"]
    /\ UNCHANGED <<tdest, tuid, tself, tinboundUid, tstats, tn, terr, tdec, mapVars, acct, tcpOther>>

NewConnection(p) ==
    \/ TcpCall(p) \/ TcpAttach(p) \/ TcpCreate(p)
    \/ TcpInc(p) \/ TcpIncTotal(p) \/ TcpActivate(p)
    \/ TcpDispatch(p) \/ TcpRead(p) \/ TcpReadAdd(p) \/ TcpWrite(p) \/ TcpClose(p)
    \/ TcpDec(p) \/ TcpDecLoad(p) \/ TcpDeactivate(p)

(* ----------------- Tun2ray.ResetAppTraffics (stats.go) ----------------- *)
resetOther == <<cfgVars, natVars, udpVars, tcpVars, readVars>>

\* the history of entry e after one of Reset's stores to its byte counters
Zeroed(e) == [acct EXCEPT ![e].quiet = 0]

\* lines 45-52: the call, t.access.RLock() and the start of the range
ResetBegin ==
    /\ rpc = "idle"
    /\ trafficStats
    /\ resets < MaxResets
    /\ ~wlock
    /\ rlocks' = rlocks + 1
    /\ rtodo' = {u \in Uids : appStats[u] # Nil}
    /\ toDel' = {}
    /\ resets' = resets + 1
    /\ acct' = [e \in 1..Len(acct) |-> [acct[e] EXCEPT !.late = FALSE]]
    /\ rpc' = "range"
    /\ UNCHANGED <<rcur, rsum, appStats, wlock, heap, resetOther>>

\* lines 52-53: the next entry of the range, in any order;
\* atomic.StoreUint64(&stat.uplink, 0)
ResetUplink ==
    /\ rpc = "range"
    /\ \E u \in rtodo :
        /\ rcur' = u
        /\ heap' = AtomicStore(appStats[u], "uplink", 0)
        /\ acct' = Zeroed(appStats[u])
    /\ rpc' = "downlink"
    /\ UNCHANGED <<rtodo, rsum, toDel, resets, mapVars, resetOther>>

\* line 54: atomic.StoreUint64(&stat.downlink, 0)
ResetDownlink ==
    /\ rpc = "downlink"
    /\ heap' = AtomicStore(appStats[rcur], "downlink", 0)
    /\ acct' = Zeroed(appStats[rcur])
    /\ rpc' = "uplinkTotal"
    /\ UNCHANGED <<rtodo, rcur, rsum, toDel, resets, mapVars, resetOther>>

\* line 55: atomic.StoreUint64(&stat.uplinkTotal, 0)
ResetUplinkTotal ==
    /\ rpc = "uplinkTotal"
    /\ heap' = AtomicStore(appStats[rcur], "uplinkTotal", 0)
    /\ acct' = Zeroed(appStats[rcur])
    /\ rpc' = "downlinkTotal"
    /\ UNCHANGED <<rtodo, rcur, rsum, toDel, resets, mapVars, resetOther>>

\* line 56: atomic.StoreUint64(&stat.downlinkTotal, 0)
ResetDownlinkTotal ==
    /\ rpc = "downlinkTotal"
    /\ heap' = AtomicStore(appStats[rcur], "downlinkTotal", 0)
    /\ acct' = Zeroed(appStats[rcur])
    /\ rpc' = "loadTcp"
    /\ UNCHANGED <<rtodo, rcur, rsum, toDel, resets, mapVars, resetOther>>

\* line 57: the plain load of stat.tcpConn
ResetLoadTcp ==
    /\ rpc = "loadTcp"
    /\ rsum' = heap[appStats[rcur]].tcpConn
    /\ rpc' = "check"
    /\ UNCHANGED <<rtodo, rcur, toDel, resets, mapVars, heap, acct, resetOther>>

\* lines 57-59: the plain load of stat.udpConn; a zero sum marks the uid
ResetCheck ==
    /\ rpc = "check"
    /\ toDel' = IF rsum + heap[appStats[rcur]].udpConn = 0 THEN toDel \cup {rcur} ELSE toDel
    /\ rtodo' = rtodo \ {rcur}
    /\ rsum' = 0
    /\ rpc' = "range"
    /\ UNCHANGED <<rcur, resets, mapVars, heap, acct, resetOther>>

\* lines 60-62: the range is over; t.access.RUnlock()
ResetRUnlock ==
    /\ rpc = "range"
    /\ rtodo = {}
    /\ rlocks' = rlocks - 1
    /\ rpc' = IF toDel # {} THEN "delete" ELSE "idle"
    /\ UNCHANGED <<rtodo, rcur, rsum, toDel, resets, appStats, wlock, heap, acct, resetOther>>

\* lines 63-67: delete(t.appStats, uid) for every marked uid, under the write lock
ResetDelete ==
    /\ rpc = "delete"
    /\ ~wlock /\ rlocks = 0
    /\ appStats' = [u \in Uids |-> IF u \in toDel THEN Nil ELSE appStats[u]]
    /\ toDel' = {}
    /\ rpc' = "idle"
    /\ UNCHANGED <<rtodo, rcur, rsum, resets, rlocks, wlock, heap, acct, resetOther>>

ResetAppTraffics ==
    \/ ResetBegin \/ ResetUplink \/ ResetDownlink \/ ResetUplinkTotal
    \/ ResetDownlinkTotal \/ ResetLoadTcp \/ ResetCheck \/ ResetRUnlock \/ ResetDelete

(* ------------------ Tun2ray.ReadAppTraffics (stats.go) ----------------- *)
readOther == <<cfgVars, natVars, udpVars, tcpVars, resetVars>>

\* lines 72-79: the call, t.access.RLock() and the start of the range
ReadBegin(r) ==
    /\ spc[r] = "idle"
    /\ trafficStats
    /\ snapshots < MaxSnapshots
    /\ ~wlock
    /\ rlocks' = rlocks + 1
    /\ stodo' = [stodo EXCEPT ![r] = {u \in Uids : appStats[u] # Nil}]
    /\ stats' = [stats EXCEPT ![r] = <<>>]
    /\ snapshots' = snapshots + 1
    /\ spc' = [spc EXCEPT ![r] = "range"]
    /\ UNCHANGED <<scur, export, swapped, delivered, appStats, wlock, heap, acct, readOther>>

\* lines 79-87: the next entry of the range, in any order; export copies
\* the live counts, the conn totals and deactivateAt (plain loads)
ReadExport(r) ==
    /\ spc[r] = "range"
    /\ \E u \in stodo[r] :
        LET stat == heap[appStats[u]] IN
        /\ scur' = [scur EXCEPT ![r] = u]
        /\ export' = [export EXCEPT ![r] =
                [Uid |-> u, TcpConn |-> stat.tcpConn, UdpConn |-> stat.udpConn,
                 TcpConnTotal |-> stat.tcpConnTotal, UdpConnTotal |-> stat.udpConnTotal,
                 DeactivateAt |-> stat.deactivateAt,
                 Uplink |-> 0, UplinkTotal |-> 0, Downlink |-> 0, DownlinkTotal |-> 0]]
        /\ acct' = [acct EXCEPT ![appStats[u]].quiet = @ + 1]
    /\ spc' = [spc EXCEPT ![r] = "swapUplink"]
    /\ UNCHANGED <<stodo, swapped, stats, delivered, snapshots, mapVars, heap, readOther>>

\* ReadSwapUplink with a load in place of the swap: the window is not zeroed
ReadSwapUplink_Load(r) ==
    /\ spc[r] = "swapUplink"
    /\ swapped' = [swapped EXCEPT ![r] = heap[appStats[scur[r]]].uplink]
    /\ spc' = [spc EXCEPT ![r] = "addUplink"]
    /\ UNCHANGED <<stodo, scur, export, stats, delivered, snapshots, mapVars, heap, acct, readOther>>

\* line 89: uplink := atomic.SwapUint64(&stat.uplink, 0)
ReadSwapUplink(r) ==
    /\ spc[r] = "swapUplink"
    /\ swapped' = [swapped EXCEPT ![r] = heap[appStats[scur[r]]].uplink]
    /\ heap' = AtomicStore(appStats[scur[r]], "uplink", 0)
    /\ spc' = [spc EXCEPT ![r] = "addUplink"]
    /\ UNCHANGED <<stodo, scur, export, stats, delivered, snapshots, mapVars, acct, readOther>>

\* ReadAddUplink with a store in place of the add: the total is the window
ReadAddUplink_Store(r) ==
    /\ spc[r] = "addUplink"
    /\ heap' = AtomicStore(appStats[scur[r]], "uplinkTotal", swapped[r])
    /\ export' = [export EXCEPT ![r].Uplink = swapped[r], ![r].UplinkTotal = swapped[r]]
    /\ swapped' = [swapped EXCEPT ![r] = 0]
    /\ spc' = [spc EXCEPT ![r] = "swapDownlink"]
    /\ UNCHANGED <<stodo, scur, stats, delivered, snapshots, mapVars, acct, readOther>>

\* lines 90-92: uplinkTotal := atomic.AddUint64(&stat.uplinkTotal, uplink)
ReadAddUplink(r) ==
    /\ spc[r] = "addUplink"
    /\ heap' = AtomicAdd(appStats[scur[r]], "uplinkTotal", swapped[r])
    /\ export' = [export EXCEPT ![r].Uplink = swapped[r],
                                ![r].UplinkTotal = heap[appStats[scur[r]]].uplinkTotal + swapped[r]]
    /\ swapped' = [swapped EXCEPT ![r] = 0]
    /\ spc' = [spc EXCEPT ![r] = "swapDownlink"]
    /\ UNCHANGED <<stodo, scur, stats, delivered, snapshots, mapVars, acct, readOther>>

\* line 94: downlink := atomic.SwapUint64(&stat.downlink, 0)
ReadSwapDownlink(r) ==
    /\ spc[r] = "swapDownlink"
    /\ swapped' = [swapped EXCEPT ![r] = heap[appStats[scur[r]]].downlink]
    /\ heap' = AtomicStore(appStats[scur[r]], "downlink", 0)
    /\ spc' = [spc EXCEPT ![r] = "addDownlink"]
    /\ UNCHANGED <<stodo, scur, export, stats, delivered, snapshots, mapVars, acct, readOther>>

\* lines 95-99: downlinkTotal := atomic.AddUint64(&stat.downlinkTotal, downlink);
\* stats = append(stats, export)
ReadAddDownlink(r) ==
    /\ spc[r] = "addDownlink"
    /\ heap' = AtomicAdd(appStats[scur[r]], "downlinkTotal", swapped[r])
    /\ LET done == [export[r] EXCEPT
                      !.Downlink = swapped[r],
                      !.DownlinkTotal = heap[appStats[scur[r]]].downlinkTotal + swapped[r]]
       IN  /\ stats' = [stats EXCEPT ![r] = Append(@, done)]
           /\ export' = [export EXCEPT ![r] = done]
    /\ swapped' = [swapped EXCEPT ![r] = 0]
    /\ stodo' = [stodo EXCEPT ![r] = @ \ {scur[r]}]
    /\ spc' = [spc EXCEPT ![r] = "range"]
    /\ UNCHANGED <<scur, delivered, snapshots, mapVars, acct, readOther>>

\* lines 100-101: the range is over; t.access.RUnlock()
ReadRUnlock(r) ==
    /\ spc[r] = "range"
    /\ stodo[r] = {}
    /\ rlocks' = rlocks - 1
    /\ spc' = [spc EXCEPT ![r] = "deliver"]
    /\ UNCHANGED <<stodo, scur, export, swapped, stats, delivered, snapshots,
                   appStats, wlock, heap, acct, readOther>>

\* what the listener keeps of a record
Seen(rec) ==
    [Uid |-> rec.Uid, Uplink |-> rec.Uplink, UplinkTotal |-> rec.UplinkTotal,
     Downlink |-> rec.Downlink, DownlinkTotal |-> rec.DownlinkTotal]

\* lines 103-107: listener.UpdateStats(stat) for every record, then return
ReadDeliver(r) ==
    /\ spc[r] = "deliver"
    /\ delivered' = delivered \o [i \in 1..Len(stats[r]) |-> Seen(stats[r][i])]
    /\ stats' = [stats EXCEPT ![r] = <<>>]
    /\ export' = [export EXCEPT ![r] = <<>>]
    /\ scur' = [scur EXCEPT ![r] = Nil]
    /\ spc' = [spc EXCEPT ![r] = "idle"]
    /\ UNCHANGED <<stodo, swapped, snapshots, mapVars, heap, acct, readOther>>

ReadAppTraffics(r) ==
    \/ ReadBegin(r) \/ ReadExport(r) \/ ReadSwapUplink(r) \/ ReadAddUplink(r)
    \/ ReadSwapDownlink(r) \/ ReadAddDownlink(r) \/ ReadRUnlock(r) \/ ReadDeliver(r)

(* ------------------------- the statistics ------------------------------ *)
\* NewPacket's creation path, the one a single call of an endpoint takes
NewPacketCreation(p) ==
    \/ UdpCall(p) \/ UdpGetOrCreateLock(p)
    \/ UdpDeleteLock(p) \/ UdpBroadcast(p) \/ UdpResolve(p) \/ UdpDial(p)
    \/ UdpSet(p) \/ UdpRecv(p) \/ UdpClose(p) \/ UdpDelete(p)
    \/ GoGet(p) \/ GoWrite(p)

\* statistics on, every flow of one app (DumpUid answers 0: bucket 1000)
InitStats ==
    /\ InitState
    /\ trafficStats = TRUE
    /\ dumpUid = FALSE
    /\ dests = {"remote"}
    /\ answers = {0}

\* a TCP flow and a UDP flow of the app, and ResetAppTraffics
NextLive ==
    \/ \E p \in TcpProcs : NewConnection(p)
    \/ \E p \in {1} : NewPacketCreation(p) \/ NewPacketStats(p)
    \/ ResetAppTraffics

SpecLive == InitStats /\ [][NextLive]_vars

\* a TCP flow, ReadAppTraffics called again and again, and ResetAppTraffics
NextTotals ==
    \/ \E p \in TcpProcs : NewConnection(p)
    \/ \E r \in {1} : ReadAppTraffics(r)
    \/ ResetAppTraffics

SpecTotals == InitStats /\ [][NextTotals]_vars

\* a TCP flow, a UDP flow and ReadAppTraffics called again and again
NextSnapshot ==
    \/ \E p \in TcpProcs : NewConnection(p)
    \/ \E p \in {1} : NewPacketCreation(p) \/ NewPacketStats(p)
    \/ \E r \in {1} : ReadAppTraffics(r)

SpecSnapshot == InitStats /\ [][NextSnapshot]_vars

\* a TCP flow and two concurrent callers of ReadAppTraffics
NextReaders ==
    \/ \E p \in TcpProcs : NewConnection(p)
    \/ \E r \in Readers : ReadAppTraffics(r)

SpecReaders == InitStats /\ [][NextReaders]_vars

(* ----------------------- claims on the statistics ---------------------- *)
Entries == 1..Len(heap)

\* the handlers between obtaining entry e and the end of their IncLive, or
\* between the decrement and the end of their DecLive
MidLive(e) ==
    \/ \E p \in TcpProcs :
        tstats[p] = e /\ tpc[p] \in {"inc", "inctotal", "activate", "decload", "deactivate"}
    \/ \E p \in UdpProcs :
        ustats[p] = e /\ upc[p] \in {"inc", "inctotal", "activate", "decload", "deactivate"}

\* C4: whenever no handler is inside IncLive or DecLive on an entry,
\* deactivate_at is 0 exactly if a flow of the entry is live.
C4_DeactivateIffLive ==
    \A e \in Entries :
        ~MidLive(e) => (heap[e].deactivateAt = 0 <=> heap[e].tcpConn + heap[e].udpConn > 0)

\* C5: ResetAppTraffics removes an entry from the map only when both of its
\* live counts are zero at the moment of the removal.
C5_DeleteOnlyIdle ==
    [][\A u \in Uids :
         appStats[u] # Nil /\ appStats'[u] = Nil
            => heap[appStats[u]].tcpConn + heap[appStats[u]].udpConn = 0]_vars

\* C6: once ResetAppTraffics has returned, every surviving entry into which
\* no flow has counted bytes since that call began has all four byte
\* counters at 0, also when ReadAppTraffics ran concurrently.
C6_ZeroAfterReset ==
    resets > 0 /\ rpc = "idle" =>
        \A u \in Uids :
            appStats[u] # Nil /\ ~acct[appStats[u]].late =>
                /\ heap[appStats[u]].uplink = 0
                /\ heap[appStats[u]].downlink = 0
                /\ heap[appStats[u]].uplinkTotal = 0
                /\ heap[appStats[u]].downlinkTotal = 0

\* the sum of field f over the first j records delivered for uid
RECURSIVE SumWindows(_, _, _)
SumWindows(f, uid, j) ==
    IF j = 0 THEN 0
    ELSE (IF delivered[j].Uid = uid THEN delivered[j][f] ELSE 0) + SumWindows(f, uid, j - 1)

\* every delivered record's total covers the windows delivered before it for
\* its uid, and is no smaller than any earlier total of that uid
TotalsCoverWindows ==
    \A j \in 1..Len(delivered) :
        LET S == delivered[j] IN
        /\ S.UplinkTotal >= SumWindows("Uplink", S.Uid, j - 1)
        /\ S.DownlinkTotal >= SumWindows("Downlink", S.Uid, j - 1)
        /\ \A i \in 1..(j - 1) :
            delivered[i].Uid = S.Uid =>
                /\ delivered[i].UplinkTotal <= S.UplinkTotal
                /\ delivered[i].DownlinkTotal <= S.DownlinkTotal

InPass(e) ==
    \E r \in Readers :
        /\ spc[r] \in {"swapUplink", "addUplink", "swapDownlink", "addDownlink"}
        /\ appStats[scur[r]] = e

\* the latest record delivered for uid is delivered[LastOf(uid)] (0: none)
LastOf(uid) ==
    LET I == {i \in 1..Len(delivered) : delivered[i].Uid = uid}
    IN  IF I = {} THEN 0 ELSE CHOOSE i \in I : \A k \in I : k <= i

\* C9: after a snapshot with no concurrent traffic the window of the entry is
\* 0 in both directions; the record a second back-to-back snapshot builds for
\* the entry has a zero window and the totals of the first.
\* (acct[e].quiet counts the passes begun on e since its byte counters were
\* last written by a flow or by Reset.)
C9_BackToBack ==
    /\ \A e \in Entries :
        acct[e].quiet >= 1 /\ ~InPass(e) => heap[e].uplink = 0 /\ heap[e].downlink = 0
    /\ \A r \in Readers : \A k \in 1..Len(stats[r]) :
        LET S == stats[r][k]
            e == appStats[S.Uid]
        IN  spc[r] = "range" /\ acct[e].quiet >= 2 =>
                /\ S.Uplink = 0 /\ S.Downlink = 0
                /\ LastOf(S.Uid) # 0
                /\ S.UplinkTotal = delivered[LastOf(S.Uid)].UplinkTotal
                /\ S.DownlinkTotal = delivered[LastOf(S.Uid)].DownlinkTotal

\* the second of two back-to-back snapshots has built its record, and the
\* first one had reported bytes in both windows
C9_Witness ==
    \E r \in Readers : \E k \in 1..Len(stats[r]) :
        LET S == stats[r][k] IN
        /\ spc[r] = "range"
        /\ acct[appStats[S.Uid]].quiet >= 2
        /\ LastOf(S.Uid) # 0
        /\ delivered[LastOf(S.Uid)].Uplink > 0
        /\ delivered[LastOf(S.Uid)].Downlink > 0

\* no stream Read of entry e is between its inner Read and its deferred add,
\* and no snapshot is between its swap of e's uplink and the add to the total
Quiescent(e) ==
    /\ \A p \in TcpProcs : ~(tstats[p] = e /\ tpc[p] = "readadd")
    /\ \A r \in Readers : ~(spc[r] = "addUplink" /\ appStats[scur[r]] = e)

\* C10 as stated: without Reset, whenever no Read and no Snapshot is
\* mid-step, window uplink + uplink_total of an entry is the sum of n over
\* the completed stream Reads of its flows.
C10_ReadsAccounted ==
    \A e \in Entries :
        resets = 0 /\ Quiescent(e) => heap[e].uplink + heap[e].uplinkTotal = acct[e].read

\* C10, amended: ... is the sum of n over the completed stream Reads plus
\* the sum of n over the successful packet writes of its flows.
C10_UplinkAccounted ==
    \A e \in Entries :
        resets = 0 /\ Quiescent(e) =>
            heap[e].uplink + heap[e].uplinkTotal = acct[e].read + acct[e].sent

\* an entry with bytes of a stream Read and of a packet write, part of them
\* already moved into the total by a snapshot, and the TCP flow closed
C10_Witness ==
    \E e \in Entries :
        /\ Quiescent(e)
        /\ acct[e].read > 0 /\ acct[e].sent > 0
        /\ heap[e].uplinkTotal > 0 /\ heap[e].uplink > 0
        /\ \E p \in TcpProcs : tstats[p] = e /\ tpc[p] = "done"

\* C8: a record's total includes every byte already swapped out of the
\* window: when a snapshot reads the total of an entry (the add of line 90 or
\* 95), no other snapshot holds bytes it has swapped out of that entry's
\* window and not yet added.
C8_TotalIncludesSwapped ==
    [][\A r \in Readers :
         /\ spc[r] \in {"addUplink", "addDownlink"}
         /\ spc'[r] # spc[r]
         => \A o \in Readers \ {r} :
                ~(spc[o] = spc[r] /\ scur[o] = scur[r] /\ swapped[o] > 0)]_vars

(* ------------------- claims on the handlers' accounting ---------------- *)
\* the handlers that hold a live count of entry e: past their IncLive's
\* increment and not past their DecLive's decrement
LiveTcp(e) ==
    {p \in TcpProcs : tstats[p] = e /\
        tpc[p] \in {"inctotal", "activate", "dispatch", "copy", "readadd", "close", "dec"}}

LiveUdp(e) ==
    {p \in UdpProcs : ustats[p] = e /\
        upc[p] \in {"inctotal", "activate", "set", "recv", "close", "delete", "dec"}}

\* C11: every handler that performed IncLive performs the matching DecLive
\* exactly once before it returns, on every exit path: the live counts of an
\* entry are never negative and count exactly the handlers that have
\* incremented and not yet decremented, so they are back at their prior
\* value once those handlers have returned.
C11_DecLiveMatches ==
    \A e \in Entries :
        /\ heap[e].tcpConn >= 0 /\ heap[e].udpConn >= 0
        /\ heap[e].tcpConn = Cardinality(LiveTcp(e))
        /\ heap[e].udpConn = Cardinality(LiveUdp(e))

\* a TCP and a UDP handler of one entry have both returned after their
\* IncLive, the TCP one without having read a byte (a failed DispatchLink or
\* a Read error), and the counts are back at 0
C11_Witness ==
    \E e \in Entries :
        /\ \E p \in TcpProcs : tstats[p] = e /\ tpc[p] = "done"
        /\ \E p \in UdpProcs : ustats[p] = e /\ upc[p] = "done"
        /\ acct[e].read = 0
        /\ heap[e].tcpConnTotal = 1 /\ heap[e].udpConnTotal = 1
        /\ heap[e].tcpConn = 0 /\ heap[e].udpConn = 0

(* ------------- every kind of flow, with the statistics on --------------- *)
\* statistics on; flows to the router and to a remote host; DumpUid answers
\* a system uid, an app's uid, the process's own uid, or fails
InitFlows ==
    /\ InitState
    /\ trafficStats = TRUE
    /\ dumpUid = FALSE
    /\ dests = Destinations
    /\ answers = DumpUidResults

\* the NewPacket calls of one source endpoint
NextFlows == \E p \in UdpProcs : NewPacket(p) \/ NewPacketStats(p)

SpecFlows == InitFlows /\ [][NextFlows]_vars

(* ------------------- claims on the attribution of flows ---------------- *)
\* C12: a self-originated flow and a flow to the router sentinel never
\* create a stats entry, never change a live or byte counter, and their conn
\* is not wrapped: no step of a NewConnection or NewPacket call whose
\* destination is the router, or whose resolved uid is the process's own,
\* changes t.appStats, a counter of an entry, or the entry a conn counts into.
C12_UnattributedUntouched ==
    [][/\ \A p \in UdpProcs :
            /\ upc'[p] # upc[p] \/ gpc'[p] # gpc[p]
            /\ udest'[p] = router \/ uself'[p]
            => heap' = heap /\ appStats' = appStats /\ connStats' = connStats
       /\ \A p \in TcpProcs :
            /\ tpc'[p] # tpc[p]
            /\ tdest'[p] = router \/ tself'[p]
            => heap' = heap /\ appStats' = appStats /\ tstats'[p] = Nil]_vars


\* C13: a flow whose UID lookup failed proceeds unattributed: no stats entry
\* is created or incremented on its behalf and no uid is set on its inbound
\* descriptor.  (A failed lookup leaves uid at 0, which no successful lookup
\* yields: uids below 10000 are clamped to 1000.)
C13_LookupFailureUnattributed ==
    /\ appStats[0] = Nil
    /\ \A p \in UdpProcs : uuid[p] = 0 => ustats[p] = Nil /\ uinboundUid[p] = 0
    /\ \A p \in TcpProcs : tuid[p] = 0 => tstats[p] = Nil /\ tinboundUid[p] = 0


(* ------------------ claims on the collection of entries ---------------- *)
\* no NewConnection or NewPacket call is in progress
FlowsAtRest ==
    /\ \A p \in TcpProcs : tpc[p] \in {"idle", "done"}
    /\ \A p \in UdpProcs : upc[p] \in {"idle", "done"} /\ gpc[p] \in {"none", "done"}

\* C14: ReadAppTraffics removes the entries whose live counts are both zero:
\* when it returns with no flow in progress, an entry that its pass copied
\* with no live flow and a set deactivateAt (the entry's flows had returned
\* before the copy) is no longer in the map.
C14_SnapshotCollects ==
    [][\A r \in Readers :
         spc[r] = "deliver" /\ spc'[r] = "idle" /\ FlowsAtRest =>
             \A k \in 1..Len(stats[r]) :
                 LET S == stats[r][k] IN
                 S.TcpConn = 0 /\ S.UdpConn = 0 /\ S.DeactivateAt # 0
                     => appStats'[S.Uid] = Nil]_vars

\* C15: concurrent attaches to one uid create exactly one entry and all
\* obtain it: as long as no entry has been removed (ResetAppTraffics has not
\* been called), every allocated entry is the map's entry of a uid, and the
\* entry a handler counts into is the one the map holds for its uid.
C15_AttachOnce ==
    resets = 0 =>
        /\ Len(heap) = Cardinality({u \in Uids : appStats[u] # Nil})
        /\ \A p \in TcpProcs : tstats[p] # Nil => tstats[p] = appStats[tuid[p]]
        /\ \A p \in UdpProcs : ustats[p] # Nil => ustats[p] = appStats[uuid[p]]

\* the UDP handler found no entry under the read lock and is about to take
\* the write lock, and the TCP handler of the same uid, which also found
\* none, has created the entry in between
C15_Witness ==
    /\ resets = 0
    /\ \E p \in UdpProcs, q \in TcpProcs :
        /\ upc[p] = "create" /\ uuid[p] = tuid[q]
        /\ tstats[q] # Nil /\ tstats[q] = appStats[tuid[q]]
        /\ heap[tstats[q]].tcpConnTotal = 1


(* ------------------ claims on NewPacket's exit paths ------------------- *)
\* calls that took the creation path: GetOrCreateLock returned loaded = false
Owners == {p \in UdpProcs : ucond[p] = p}

\* C16: every call that took the creation path has, when it returns, closed
\* the TUN-side closer and left no conn of its own under the NAT key, also
\* when dialUDP failed; a conn it dialed is closed.
C16_CreationPathCleansUp ==
    \A p \in Owners :
        upc[p] = "done" =>
            /\ closerClosed[p]
            /\ mapping[natKey] # p
            /\ uconn[p] # Nil => connClosed[uconn[p]]


(* -------------------- one UDP flow, statistics on ---------------------- *)
\* a single NewPacket call, of any kind of flow: the creation path and its
\* statistics
NextPacket == \E p \in {1} : NewPacketCreation(p) \/ NewPacketStats(p)

SpecPacket == InitFlows /\ [][NextPacket]_vars

C18_ReleaseBeforeDial ==
    /\ \A p \in Owners :
        upc[p] \notin {"lock", "dellock", "broadcast", "resolve"} => mapping[lockKey] # p
    /\ \A q \in Waiters :
        upc[q] \in {"retry", "retrywrite", "condunlock", "done"}
            => upc[ucond[q]] \notin {"lock", "dellock", "broadcast"}
    /\ mapping[natKey] # Nil =>
        LET c == mapping[natKey] IN uconn[c] = c /\ upc[c] \in {"recv", "close", "delete"}

\* a waiter woken by the broadcast has retried the fast path and found no
\* conn, while the owner of its barrier has not yet Set the conn
C18_Witness ==
    \E q \in Waiters :
        /\ upc[q] = "condunlock" /\ usend[q] = Nil
        /\ upc[ucond[q]] \in {"resolve", "dial", "set"}
        /\ mapping[natKey] = Nil


\* C19: a conn installed under the NAT key by a call whose read loop is
\* still running is never removed from the table, or overwritten in it, by
\* another call for the same source endpoint.
C19_OwnConnOnly ==
    [][\A c \in UdpProcs :
         mapping[natKey] = c /\ upc[c] = "recv" => mapping'[natKey] = c]_vars


\* C20: no NAT table entry leaks: whenever no NewPacket call is in progress,
\* the table holds neither a conn under the NAT key nor a barrier under the
\* lock key.
C20_NoLeak ==
    (\A p \in UdpProcs : upc[p] \in {"idle", "done"}) =>
        mapping[natKey] = Nil /\ mapping[lockKey] = Nil

\* every call has returned, after two of them had each dialed and Set a conn
\* and one of the conns had been closed by a failed write
C20_Witness ==
    /\ \A p \in UdpProcs : upc[p] = "done"
    /\ Cardinality(Dialed) = 2
    /\ \E p \in UdpProcs : gpc[p] = "done" /\ gsend[p] # Nil /\ forwarded[p] = Nil

====
